---------------------------- MODULE Spec2Model ----------------------------
(***************************************************************************)
(* SnapLog server: the conversion scheduler (src/main_server.py) and the   *)
(* server configuration store (src/server_config.py).                      *)
(*                                                                         *)
(* Threads of the program:                                                 *)
(*   - the GUI thread (Tk main loop) runs the button handlers              *)
(*     _save_server_config, _save_alias, _manual_run_conversion,           *)
(*     _on_closing and, inside them, _start_conversion_scheduler;          *)
(*   - every call of _start_conversion_scheduler creates one thread that   *)
(*     runs _conversion_scheduler_loop;                                    *)
(*   - every confirmed manual run creates one thread that runs             *)
(*     _run_conversions.                                                   *)
(* A thread is interleaved with the others between the steps named below:  *)
(* each action is one step of one thread.  Wall-clock time is the variable *)
(* now, in seconds, advanced by the environment.                           *)
(***************************************************************************)
EXTENDS Integers, Sequences, FiniteSets, TLC

(***************************************************************************)
(* Bounds of the model.                                                    *)
(***************************************************************************)
MaxTime == 4        \* the clock stops after this many seconds
SecPerMin == 2      \* seconds in a calendar minute of the modelled clock
MinPerDay == 2      \* calendar minutes in a day of the modelled clock
MaxLoops == 2       \* scheduler threads that can be created in one run
MaxGuiOps == 1       \* button presses the GUI thread handles in one run
MaxManualRuns == 2   \* manual conversions started in one run

(***************************************************************************)
(* Program constants.                                                      *)
(***************************************************************************)
POLL_SLEEP == 1             \* time.sleep(1)
BAD_VALUE_SLEEP == 60       \* time.sleep(60)
RESTART_JOIN_TIMEOUT == 2   \* conversion_thread.join(timeout=2)
CLOSE_JOIN_TIMEOUT == 5     \* conversion_thread.join(timeout=5)
NoTime == -1                \* last_periodic_conversion_time = None

(***************************************************************************)
(* JSON values, as far as the configuration uses them: a string, an        *)
(* integer or null.                                                        *)
(***************************************************************************)
JStr(s) == [t |-> "str", s |-> s, n |-> 0]
JInt(n) == [t |-> "int", s |-> "", n |-> n]
JNull == [t |-> "null", s |-> "", n |-> 0]

\* Python's None in a string-valued field: no string of the program equals it.
NoneStr == "<None>"

(***************************************************************************)
(* The wall clock.  The modelled day has MinPerDay minutes of SecPerMin    *)
(* seconds; its minutes carry the labels datetime.strftime("%H:%M") gives  *)
(* them, starting at 17:00.                                                *)
(***************************************************************************)
ClockLabels == <<"17:00", "17:01", "17:02", "17:03", "17:04", "17:05">>

MinuteOf(t) == t \div SecPerMin                 \* calendar minute, absolute
DayOf(t) == MinuteOf(t) \div MinPerDay
Strftime(t) == ClockLabels[(MinuteOf(t) % MinPerDay) + 1]

\* datetime.strptime(s, "%H:%M") succeeds: one or two digits before and
\* after the colon, hour 0..23, minute 0..59.
StrptimeOK(s) ==
    s \in {"17:00", "17:01", "17:02", "17:03", "17:04", "17:05", "9:05",
           "17:1"}

\* The minute of the day datetime.strptime(s, "%H:%M") gives for an
\* accepted s, under the label strftime("%H:%M") gives that minute.
Strptime(s) ==
    CASE s = "17:1" -> "17:01"
      [] s = "9:05" -> "09:05"
      [] OTHER -> s

\* int(s) of a string: the strings of the model that int() converts, and
\* the integer each gives; int() raises ValueError on every other string.
IntStrings == {"0", "2", "3", "-1"}
IntOfStr(s) ==
    CASE s = "0" -> 0
      [] s = "2" -> 2
      [] s = "3" -> 3
      [] s = "-1" -> 0 - 1
      [] OTHER -> 0

\* str(v) of a JSON value.
PyStr(v) ==
    CASE v.t = "str" -> v.s
      [] v.t = "int" ->
           (CASE v.n = 0 -> "0" [] v.n = 2 -> "2" [] v.n = 3 -> "3"
              [] OTHER -> "<int>")
      [] OTHER -> "None"

\* int(v) of a JSON value: "ok" with the integer, "ValueError" or "TypeError".
PyInt(v) ==
    CASE v.t = "int" -> [r |-> "ok", n |-> v.n]
      [] v.t = "str" /\ v.s \in IntStrings -> [r |-> "ok", n |-> IntOfStr(v.s)]
      [] v.t = "str" -> [r |-> "ValueError", n |-> 0]
      [] OTHER -> [r |-> "TypeError", n |-> 0]

(***************************************************************************)
(* src/server_config.py                                                    *)
(***************************************************************************)
DEFAULT_SERVER_CONVERSION_TYPE == JStr("daily")
DEFAULT_SERVER_CONVERSION_VALUE == JStr("17:00")

\* A ServerConfig document: client_aliases is the set of device ids that
\* have an alias.
Doc(ty, va, al) ==
    [conversion_type |-> ty, conversion_value |-> va, client_aliases |-> al]

DefaultConfig ==
    Doc(DEFAULT_SERVER_CONVERSION_TYPE, DEFAULT_SERVER_CONVERSION_VALUE, {})

(***************************************************************************)
(* JSON text.  A token is the text of one value of the file: a quoted      *)
(* string, a number in decimal digits, null, an object (of which the model *)
(* keeps the keys), or "absent" for a key the object does not have.        *)
(***************************************************************************)
TString(s) == [tk |-> "string", tx |-> s, keys |-> {}]
TNumber(s) == [tk |-> "number", tx |-> s, keys |-> {}]
TNull == [tk |-> "null", tx |-> "null", keys |-> {}]
TObject(ks) == [tk |-> "object", tx |-> "", keys |-> ks]
TAbsent == [tk |-> "absent", tx |-> "", keys |-> {}]

\* json.dump of a value that writes an integer as a quoted string.
json_dumps_quoted(v) ==
    CASE v.t = "str" -> TString(v.s)
      [] v.t = "int" -> TString(PyStr(v))
      [] OTHER -> TNull

\* json.dump of a string, an integer or None (line 59).
json_dumps(v) ==
    CASE v.t = "str" -> TString(v.s)
      [] v.t = "int" -> TNumber(PyStr(v))
      [] OTHER -> TNull

\* json.load of the text of a string, a number or null (line 44).
json_loads(k) ==
    CASE k.tk = "string" -> JStr(k.tx)
      [] k.tk = "number" -> JInt(IntOfStr(k.tx))
      [] OTHER -> JNull

\* The JSON object json.dump writes for the document d (line 59).
json_dump(d) ==
    [conversion_type |-> json_dumps(d.conversion_type),
     conversion_value |-> json_dumps(d.conversion_value),
     client_aliases |-> TObject(d.client_aliases)]

\* The file server_config.json.  kind "doc": the text is the JSON object
\* doc.  kind "empty": the file between open(..., 'w') and the flush of
\* json.dump, no JSON text in it.  kind "missing": no file.  kind
\* "malformed": the text breaks off inside the object doc.  kind
\* "nonobject": the text is a JSON array that holds the object doc.  kind
\* "unreadable": the text is doc and open(..., 'r') raises.  locked: the
\* file is write-protected, open(..., 'w') raises PermissionError.
FileText(k, o) == [kind |-> k, doc |-> o, locked |-> FALSE]
FileDoc(d) == FileText("doc", json_dump(d))
FileEmpty == FileText("empty", json_dump(DefaultConfig))
FileMissing == FileText("missing", json_dump(DefaultConfig))
Locked(f) == [f EXCEPT !.locked = TRUE]

\* loaded_config.get(key, default) of lines 46-48.
get(o, key, default) ==
    IF o[key].tk = "absent" THEN default ELSE json_loads(o[key])

\* load_server_config that falls back to the defaults as a whole when
\* the object lacks one of the fields.
load_server_config_whole(f) ==
    IF /\ f.kind = "doc"
       /\ \A key \in DOMAIN f.doc : f.doc[key].tk # "absent"
    THEN Doc(json_loads(f.doc.conversion_type),
             json_loads(f.doc.conversion_value),
             f.doc.client_aliases.keys)
    ELSE DefaultConfig

\* load_server_config that unwraps an object found inside an array.
load_server_config_unwrap(f) ==
    IF f.kind \in {"doc", "nonobject"}
    THEN Doc(get(f.doc, "conversion_type", DEFAULT_SERVER_CONVERSION_TYPE),
             get(f.doc, "conversion_value", DEFAULT_SERVER_CONVERSION_VALUE),
             IF f.doc.client_aliases.tk = "absent" THEN {}
             ELSE f.doc.client_aliases.keys)
    ELSE DefaultConfig

\* load_server_config() (lines 31-53): the defaults (lines 33-37), each
\* replaced by the field of the file when the file exists, opens, parses
\* and is an object that has the field (lines 41-48); every exception is
\* caught (lines 50-53) and, raised before line 46 assigns, leaves the
\* defaults.
load_server_config(f) ==
    IF f.kind = "doc"
    THEN Doc(get(f.doc, "conversion_type", DEFAULT_SERVER_CONVERSION_TYPE),
             get(f.doc, "conversion_value", DEFAULT_SERVER_CONVERSION_VALUE),
             IF f.doc.client_aliases.tk = "absent" THEN {}
             ELSE f.doc.client_aliases.keys)
    ELSE DefaultConfig

(***************************************************************************)
(* State.                                                                  *)
(***************************************************************************)
VARIABLES
    now,                            \* datetime.now(), in seconds
    file,                           \* SERVER_LOCAL_CONFIG_FILE
    server_config,                  \* self.server_config
    client_aliases,                 \* self.client_aliases
    stop_conversion_event,          \* self.stop_conversion_event
    conversion_thread,              \* self.conversion_thread (0: None)
    last_daily_conversion_check,    \* self.last_daily_conversion_check
    last_periodic_conversion_time,  \* self.last_periodic_conversion_time
    thr,                            \* the scheduler threads
    gui,                            \* the GUI thread
    sw,                             \* the calls of _run_conversions
    fs,                             \* the shared and the converted root
    hist                            \* history: facts about the run so far

vars == <<now, file, server_config, client_aliases, stop_conversion_event,
          conversion_thread, last_daily_conversion_check,
          last_periodic_conversion_time, thr, gui, sw, fs, hist>>

Loops == 1..MaxLoops

(***************************************************************************)
(* The scheduler threads.  thr[l] is the thread the l-th call of           *)
(* _start_conversion_scheduler created:                                    *)
(*   pc      "unborn"  not created yet                                     *)
(*           "wait"    at time.sleep, or just started: it runs the loop    *)
(*                     test of line 564 once now >= wakeAt                 *)
(*           "check"   config reloaded and now read (lines 566-571)        *)
(*           "mark"    the due test of lines 573-607 evaluated             *)
(*           "sweep"   inside _run_conversions (line 614)                  *)
(*           "dead"    left the loop because the stop event was set        *)
(*           "crashed" ended by an exception that left the loop            *)
(*   ctype, cvalue, tnow: the locals conversion_type, conversion_value and *)
(*   now; branch: the arm of the due test taken.                           *)
(*   History: sig (the stop event was set while the thread was alive),     *)
(*   fired (it has triggered a sweep), ticks (ticks it has decided, up to  *)
(*   2), prev (hist.lastFire when it decided its last tick) and first (its *)
(*   last tick triggered its first sweep, or the first sweep since the     *)
(*   last call of _start_conversion_scheduler).                            *)
(***************************************************************************)
Unborn ==
    [pc |-> "unborn", ctype |-> JNull, cvalue |-> JNull, tnow |-> 0,
     branch |-> "none", wakeAt |-> 0, sig |-> FALSE, fired |-> FALSE,
     ticks |-> 0, prev |-> NoTime, first |-> FALSE]

Started(t) == [Unborn EXCEPT !.pc = "wait", !.wakeAt = t]

\* threading.Thread.is_alive()
is_alive(l) == l \in Loops /\ thr[l].pc \notin {"unborn", "dead", "crashed"}

AliveLoops == {l \in Loops : is_alive(l)}

\* The next thread slot, MaxLoops + 1 when all are used.
NextLoop ==
    IF \E l \in Loops : thr[l].pc = "unborn"
    THEN CHOOSE l \in Loops :
            thr[l].pc = "unborn" /\ \A k \in 1..(l - 1) : thr[k].pc # "unborn"
    ELSE MaxLoops + 1

(***************************************************************************)
(* The due test of _conversion_scheduler_loop, lines 573-607: the arm it   *)
(* takes for a loaded type ty and value va at time t, reading the two      *)
(* last-fired fields ld (daily) and lp (periodic).                         *)
(*   d_fire  lines 577-579      d_reset lines 580-582   d_keep neither     *)
(*   p_first lines 590-593      p_fire  lines 594-596   p_wait neither     *)
(*   p_bad   int() raised ValueError (lines 597-601)                       *)
(*   p_crash int() raised TypeError, which no handler catches              *)
(*   unknown lines 606-607                                                 *)
(***************************************************************************)
DueBranch(ty, va, t, ld, lp) ==
    IF ty = JStr("daily") THEN
        IF Strftime(t) = PyStr(va) /\ Strftime(t) # ld THEN "d_fire"
        ELSE IF Strftime(t) # ld THEN "d_reset"
        ELSE "d_keep"
    ELSE IF ty = JStr("periodic") THEN
        IF PyInt(va).r = "ValueError" THEN "p_bad"
        ELSE IF PyInt(va).r = "TypeError" THEN "p_crash"
        ELSE IF lp = NoTime THEN "p_first"
        ELSE IF t - lp >= PyInt(va).n THEN "p_fire"
        ELSE "p_wait"
    ELSE "unknown"

FireBranches == {"d_fire", "p_first", "p_fire"}

\* The writes of the arm to last_daily_conversion_check (lines 579, 582, 604).
MarkDaily(br, t, ld) ==
    CASE br = "d_fire" -> Strftime(t)
      [] br = "d_reset" -> NoneStr
      [] br \in {"p_first", "p_fire", "p_wait"} -> NoneStr
      [] OTHER -> ld

\* The writes of the arm to last_periodic_conversion_time (lines 585, 593, 596).
MarkPeriodic(br, t, lp) ==
    CASE br \in {"d_fire", "d_reset", "d_keep"} -> NoTime
      [] br \in {"p_first", "p_fire"} -> t
      [] OTHER -> lp

(***************************************************************************)
(* The shared tree.  fs.root: NETWORK_BASE_PATH exists; fs.dirs: its       *)
(* subdirectories in listing order; fs.conv[d]: the directory of device d  *)
(* under NETWORK_CONVERTED_PATH; fs.raw[c], fs.meta[c], fs.png[c]: the     *)
(* files screen_<stamp>.binn, screen_<stamp>.json and the converted        *)
(* <device>_<stamp>.png of capture c = <<device, stamp>>.                  *)
(***************************************************************************)
Devs == {"dev1", "dev2"}
Caps == {<<"dev1", 1>>, <<"dev1", 2>>, <<"dev2", 1>>}
Stamps == <<1, 2>>                  \* the listing order of a directory

BYTES_PER_PIXEL == 3                \* Image.frombytes("RGB", ...)
FALLBACK_WIDTH == 1920
FALLBACK_HEIGHT == 1080

\* A raw file of n bytes; pinned: os.remove raises on it (the file is
\* read-only or held open by its writer).
Raw(n) == [there |-> TRUE, len |-> n, pinned |-> FALSE]
NoRaw == [there |-> FALSE, len |-> 0, pinned |-> FALSE]

\* A sidecar by what json.load makes of it: "object" with the values of
\* the keys width and height (JNull: the key is missing), "malformed" (no
\* JSON), "nonobject" (JSON, but a list, a number or a string),
\* "unreadable" (open raises PermissionError).
Meta(k, w, h) == [kind |-> k, w |-> w, h |-> h, pinned |-> FALSE]
NoMeta == Meta("absent", JNull, JNull)
NoPng == [there |-> FALSE, w |-> 0, h |-> 0, writes |-> 0, partial |-> FALSE]

\* isinstance(v, int) and v > 0
IsPosInt(v) == v.t = "int" /\ v.n > 0

\* Lines 675-690: the size the sidecar m gives, or the exception that
\* leaves the try statement of line 676.
ResolveDims(m) ==
    CASE m.kind = "absent" ->
           [r |-> "ok", w |-> FALLBACK_WIDTH, h |-> FALLBACK_HEIGHT]
      [] m.kind = "malformed" ->
           [r |-> "ok", w |-> FALLBACK_WIDTH, h |-> FALLBACK_HEIGHT]
      [] m.kind = "object" ->
           IF IsPosInt(m.w) /\ IsPosInt(m.h)
           THEN [r |-> "ok", w |-> m.w.n, h |-> m.h.n]
           ELSE [r |-> "ok", w |-> FALLBACK_WIDTH, h |-> FALLBACK_HEIGHT]
      [] m.kind = "nonobject" -> [r |-> "AttributeError", w |-> 0, h |-> 0]
      [] OTHER -> [r |-> "PermissionError", w |-> 0, h |-> 0]

\* FromBytesOK with the buffer required to be longer than the image.
FromBytesOK_strict(w, h, n) == n > w * h * BYTES_PER_PIXEL

\* Image.frombytes("RGB", (w, h), data) accepts data of at least w*h*3
\* bytes and raises ValueError on less.
FromBytesOK(w, h, n) == n >= w * h * BYTES_PER_PIXEL

RESERVED == {"logs", "converted", "client_configs"}

\* _get_found_client_dirs(): the directories of the shared root that are
\* not reserved, in listing order; none when the root does not exist
\* (line 501).
get_found_client_dirs(f) ==
    IF f.root THEN SelectSeq(f.dirs, LAMBDA d : d \notin RESERVED) ELSE <<>>

\* Line 665: the .binn files of device d, in listing order.
files_to_convert(f, d) ==
    SelectSeq(Stamps, LAMBDA n : <<d, n>> \in Caps /\ f.raw[<<d, n>>].there)

(***************************************************************************)
(* _run_conversions: sw[r] is the call made by runner r, a scheduler       *)
(* thread (r in Loops) or the thread of a manual run (r = ManualThread).   *)
(* clients, dev, files, cur, w, h and total are the locals of the call;    *)
(* pending (the raw files of the listed clients when the call started),    *)
(* had (the captures with a sidecar when the call started), tried, failed  *)
(* (line 714 ran for the file), counted (line 710 ran for it), aborted     *)
(* (line 718 ran) and runs record what the call did.                       *)
(***************************************************************************)
ManualThread == MaxLoops + 1
Runners == Loops \cup {ManualThread}

SweepIdle ==
    [pc |-> "idle", clients |-> <<>>, dev |-> "", files |-> <<>>, cur |-> 0,
     w |-> 0, h |-> 0, total |-> 0, pending |-> {}, had |-> {},
     tried |-> {}, failed |-> {}, counted |-> {}, aborted |-> FALSE,
     runs |-> 0]

\* The capture the call is at.
CurCap(s) == <<s.dev, s.cur>>

\* Line 671: the for loop goes to the next file, or back to the client
\* loop of line 650 when there is none.
NextFile(s) ==
    IF Len(s.files) > 1
    THEN [s EXCEPT !.files = Tail(s.files), !.cur = s.files[2], !.pc = "meta"]
    ELSE [s EXCEPT !.files = <<>>, !.cur = 0, !.pc = "client"]

\* Lines 713-716: the failure of the current file is logged and the loop
\* continues.
FileFailed(s) == NextFile([s EXCEPT !.failed = @ \cup {CurCap(s)}])

\* Lines 717-721: an exception that reached the outer try ends the call.
Aborted(s) == [s EXCEPT !.pc = "done", !.aborted = TRUE]

(***************************************************************************)
(* History.  hist.lastFire is the tick time of the last scheduled sweep    *)
(* triggered (NoTime: none), hist.started counts the sweeps triggered      *)
(* since the last call of _start_conversion_scheduler (up to 1),           *)
(* hist.stable says that every document written to the file so far has    *)
(* the conversion_type and conversion_value the file had at start          *)
(* (hist.ty0, hist.va0), hist.daily that the file had the type daily at    *)
(* start and so has every document written to it so far, hist.fs0 is the   *)
(* shared tree at start.                                                   *)
(***************************************************************************)
Ticked(l) == IF thr[l].ticks < 2 THEN thr[l].ticks + 1 ELSE 2

Running == gui.pc # "closed"     \* the process has not exited

(***************************************************************************)
(* _conversion_scheduler_loop, one action per step of a thread.            *)
(***************************************************************************)
\* Lines 564-571, after time.sleep returned (or at thread start): the loop
\* test, then the reload of the config and the reading of the clock.
LoopTop(l) ==
    /\ Running
    /\ thr[l].pc = "wait"
    /\ now >= thr[l].wakeAt
    /\ IF stop_conversion_event
       THEN /\ thr' = [thr EXCEPT ![l].pc = "dead"]
            /\ UNCHANGED server_config
       ELSE /\ server_config' = load_server_config(file)
            /\ thr' = [thr EXCEPT ![l].pc = "check",
                                  ![l].ctype = server_config'.conversion_type,
                                  ![l].cvalue = server_config'.conversion_value,
                                  ![l].tnow = now]
    /\ UNCHANGED <<now, file, client_aliases, stop_conversion_event,
                   conversion_thread, last_daily_conversion_check,
                   last_periodic_conversion_time, gui, sw, fs, hist>>

\* Lines 573-607, the reads: the arm of the due test is chosen.  A
\* ValueError of int() is caught (lines 597-601: sleep 60 s, continue); a
\* TypeError of int() is not caught and ends the thread.
LoopCheck(l) ==
    /\ Running
    /\ thr[l].pc = "check"
    /\ LET br == DueBranch(thr[l].ctype, thr[l].cvalue, thr[l].tnow,
                           last_daily_conversion_check,
                           last_periodic_conversion_time)
       IN  IF br = "p_crash"
           THEN thr' = [thr EXCEPT ![l].pc = "crashed",
                                      ![l].branch = br,
                                      ![l].ticks = Ticked(l)]
           ELSE IF br = "p_bad"
           THEN thr' = [thr EXCEPT ![l].pc = "wait",
                                      ![l].branch = br,
                                      ![l].wakeAt = now + BAD_VALUE_SLEEP,
                                      ![l].ticks = Ticked(l)]
           ELSE thr' = [thr EXCEPT ![l].pc = "mark", ![l].branch = br]
    /\ UNCHANGED <<now, file, server_config, client_aliases,
                   stop_conversion_event, conversion_thread,
                   last_daily_conversion_check,
                   last_periodic_conversion_time, gui, sw, fs, hist>>

\* Lines 573-617, the writes of the arm chosen, then either the call of
\* _run_conversions (lines 609-614) or time.sleep(1) (line 617).
LoopMark(l) ==
    /\ Running
    /\ thr[l].pc = "mark"
    /\ LET br == thr[l].branch
       IN  /\ last_daily_conversion_check' =
                  MarkDaily(br, thr[l].tnow, last_daily_conversion_check)
           /\ last_periodic_conversion_time' =
                  MarkPeriodic(br, thr[l].tnow, last_periodic_conversion_time)
           /\ IF br \in FireBranches
              THEN /\ thr' = [thr EXCEPT ![l].pc = "sweep",
                                         ![l].fired = TRUE,
                                         ![l].ticks = Ticked(l),
                                         ![l].prev = hist.lastFire,
                                         ![l].first = ~thr[l].fired
                                                      \/ hist.started = 0]
                   /\ sw' = [sw EXCEPT ![l] = [SweepIdle EXCEPT !.pc = "start"]]
                   /\ hist' = [hist EXCEPT !.lastFire = thr[l].tnow,
                                           !.started = 1]
              ELSE /\ thr' = [thr EXCEPT ![l].pc = "wait",
                                         ![l].wakeAt = now + POLL_SLEEP,
                                         ![l].ticks = Ticked(l),
                                         ![l].prev = hist.lastFire,
                                         ![l].first = FALSE]
                   /\ UNCHANGED <<sw, hist>>
    /\ UNCHANGED <<now, file, server_config, client_aliases,
                   stop_conversion_event, conversion_thread, gui, fs>>

\* Lines 615-617: _run_conversions returned; time.sleep(1).
LoopSweepDone(l) ==
    /\ Running
    /\ thr[l].pc = "sweep"
    /\ sw[l].pc = "done"
    /\ thr' = [thr EXCEPT ![l].pc = "wait", ![l].wakeAt = now + POLL_SLEEP]
    /\ sw' = [sw EXCEPT ![l].pc = "idle"]
    /\ UNCHANGED <<now, file, server_config, client_aliases,
                   stop_conversion_event, conversion_thread,
                   last_daily_conversion_check,
                   last_periodic_conversion_time, gui, fs, hist>>

(***************************************************************************)
(* _run_conversions, one action per step of a call.                        *)
(***************************************************************************)
SchedulerVars ==
    <<now, file, server_config, client_aliases, stop_conversion_event,
      conversion_thread, last_daily_conversion_check,
      last_periodic_conversion_time, thr, gui, hist>>

\* The raw files a call that starts now has to convert: those of the
\* listed clients whose converted directory can be made.
PendingCaps(f) ==
    {c \in Caps : /\ \E i \in 1..Len(get_found_client_dirs(f)) :
                        get_found_client_dirs(f)[i] = c[1]
                  /\ f.conv[c[1]] # "blocked"
                  /\ f.raw[c].there}

\* SweepStart without the check of line 644: the call goes on to the loop
\* of line 650 whatever the shared root is.
SweepStart_nocheck(r) ==
    /\ Running
    /\ sw[r].pc = "start"
    /\ sw' = [sw EXCEPT ![r].pc = "client",
                          ![r].clients = get_found_client_dirs(fs),
                          ![r].pending = PendingCaps(fs),
                          ![r].had = {c \in Caps : fs.meta[c].kind # "absent"}]
    /\ UNCHANGED <<SchedulerVars, fs>>

\* Lines 641-650: the shared root is checked and the client directories
\* are listed.
SweepStart(r) ==
    /\ Running
    /\ sw[r].pc = "start"
    /\ IF ~fs.root
       THEN sw' = [sw EXCEPT ![r].pc = "done"]
       ELSE sw' = [sw EXCEPT ![r].pc = "client",
                             ![r].clients = get_found_client_dirs(fs),
                             ![r].pending = PendingCaps(fs),
                             ![r].had = {c \in Caps :
                                           fs.meta[c].kind # "absent"}]
    /\ UNCHANGED <<SchedulerVars, fs>>

\* SweepClient with the failure of os.makedirs not caught at line 661: it
\* ends the call at line 717.
SweepClient_abort(r) ==
    /\ Running
    /\ sw[r].pc = "client"
    /\ sw[r].clients # <<>>
    /\ LET d == Head(sw[r].clients)
           s == [sw[r] EXCEPT !.clients = Tail(@)]
           fl == files_to_convert(fs, d)
       IN  IF d \notin Devs
           THEN /\ sw' = [sw EXCEPT ![r] = s]
                /\ fs' = fs
           ELSE IF fs.conv[d] = "blocked"
           THEN /\ sw' = [sw EXCEPT ![r] = Aborted(s)]
                /\ fs' = fs
           ELSE /\ fs' = [fs EXCEPT !.conv[d] =
                               IF @ = "absent" THEN "present" ELSE @]
                /\ sw' = [sw EXCEPT ![r] =
                            IF fl = <<>> THEN s
                            ELSE [s EXCEPT !.dev = d, !.files = fl,
                                           !.cur = fl[1], !.pc = "meta"]]
    /\ UNCHANGED SchedulerVars

\* Lines 650-671 for the next client: its converted directory is made, its
\* raw files are listed and the first one is taken; a client whose
\* directory cannot be made or that has no raw file is passed over.
SweepClient(r) ==
    /\ Running
    /\ sw[r].pc = "client"
    /\ sw[r].clients # <<>>
    /\ LET d == Head(sw[r].clients)
           s == [sw[r] EXCEPT !.clients = Tail(@)]
           fl == files_to_convert(fs, d)
       IN  IF d \notin Devs \/ fs.conv[d] = "blocked"
           THEN /\ sw' = [sw EXCEPT ![r] = s]
                /\ fs' = fs
           ELSE /\ fs' = [fs EXCEPT !.conv[d] =
                               IF @ = "absent" THEN "present" ELSE @]
                /\ sw' = [sw EXCEPT ![r] =
                            IF fl = <<>> THEN s
                            ELSE [s EXCEPT !.dev = d, !.files = fl,
                                           !.cur = fl[1], !.pc = "meta"]]
    /\ UNCHANGED SchedulerVars

\* Line 650 with no client directory left: the for loop ends and the call
\* returns (lines 720-721).
SweepEnd(r) ==
    /\ Running
    /\ sw[r].pc = "client"
    /\ sw[r].clients = <<>>
    /\ sw' = [sw EXCEPT ![r].pc = "done"]
    /\ UNCHANGED <<SchedulerVars, fs>>

\* Lines 672-690: the size of the image is taken from the sidecar.  An
\* exception other than the three of line 688 leaves the two for loops and
\* is caught at line 717.
SweepMeta(r) ==
    /\ Running
    /\ sw[r].pc = "meta"
    /\ LET d == ResolveDims(fs.meta[CurCap(sw[r])])
           s == [sw[r] EXCEPT !.tried = @ \cup {CurCap(sw[r])}]
       IN  sw' = [sw EXCEPT ![r] =
                    IF d.r = "ok"
                    THEN [s EXCEPT !.w = d.w, !.h = d.h, !.pc = "read"]
                    ELSE Aborted(s)]
    /\ UNCHANGED <<SchedulerVars, fs>>

\* Lines 694-703: the raw file is read and decoded.
SweepRead(r) ==
    /\ Running
    /\ sw[r].pc = "read"
    /\ LET f == fs.raw[CurCap(sw[r])]
       IN  sw' = [sw EXCEPT ![r] =
                    IF f.there /\ FromBytesOK(sw[r].w, sw[r].h, f.len)
                    THEN [@ EXCEPT !.pc = "save"]
                    ELSE FileFailed(@)]
    /\ UNCHANGED <<SchedulerVars, fs>>

\* Line 704, img.save(png_path) begins: the PNG is opened for writing,
\* which empties a file of that name if there is one; in a converted
\* directory that cannot be written to, save raises.
SweepSave(r) ==
    /\ Running
    /\ sw[r].pc = "save"
    /\ LET c == CurCap(sw[r])
       IN  IF fs.conv[c[1]] = "present"
           THEN /\ fs' = [fs EXCEPT !.png[c] =
                            [there |-> TRUE, w |-> sw[r].w, h |-> sw[r].h,
                             writes |-> IF @.writes < 2 THEN @.writes + 1
                                        ELSE 2,
                             partial |-> TRUE]]
                /\ sw' = [sw EXCEPT ![r].pc = "saving"]
           ELSE /\ fs' = fs
                /\ sw' = [sw EXCEPT ![r] = FileFailed(@)]
    /\ UNCHANGED SchedulerVars

\* Line 704, img.save returns: the image is written out and the file
\* closed.
SweepSaveDone(r) ==
    /\ Running
    /\ sw[r].pc = "saving"
    /\ fs' = [fs EXCEPT !.png[CurCap(sw[r])].partial = FALSE]
    /\ sw' = [sw EXCEPT ![r].pc = "rmraw"]
    /\ UNCHANGED SchedulerVars

\* Line 706: os.remove(binn_path).
SweepRmRaw(r) ==
    /\ Running
    /\ sw[r].pc = "rmraw"
    /\ LET c == CurCap(sw[r])
       IN  IF fs.raw[c].there /\ ~fs.raw[c].pinned
           THEN /\ fs' = [fs EXCEPT !.raw[c] = NoRaw]
                /\ sw' = [sw EXCEPT ![r].pc = "rmjson"]
           ELSE /\ fs' = fs
                /\ sw' = [sw EXCEPT ![r] = FileFailed(@)]
    /\ UNCHANGED SchedulerVars

\* Line 707: os.path.exists(json_path); without a sidecar the file is
\* counted (line 710).
SweepJsonExists(r) ==
    /\ Running
    /\ sw[r].pc = "rmjson"
    /\ sw' = [sw EXCEPT ![r] =
                IF fs.meta[CurCap(@)].kind # "absent"
                THEN [@ EXCEPT !.pc = "rmjson2"]
                ELSE NextFile([@ EXCEPT !.total = @ + 1,
                                        !.counted = @ \cup {CurCap(sw[r])}])]
    /\ UNCHANGED <<SchedulerVars, fs>>

\* Lines 708-710: os.remove(json_path), then the file is counted.
SweepRmJson(r) ==
    /\ Running
    /\ sw[r].pc = "rmjson2"
    /\ LET c == CurCap(sw[r])
       IN  IF fs.meta[c].kind # "absent" /\ ~fs.meta[c].pinned
           THEN /\ fs' = [fs EXCEPT !.meta[c] = NoMeta]
                /\ sw' = [sw EXCEPT ![r] =
                            NextFile([@ EXCEPT !.total = @ + 1,
                                               !.counted = @ \cup {c}])]
           ELSE /\ fs' = fs
                /\ sw' = [sw EXCEPT ![r] = FileFailed(@)]
    /\ UNCHANGED SchedulerVars

(***************************************************************************)
(* The GUI thread.  gui.pc is "idle" between two handlers and otherwise    *)
(* the step the running handler is at; gui.ops counts the button presses   *)
(* handled; gui.va is the validated conversion_value, gui.content the      *)
(* document save_server_config was called with, gui.next the step after    *)
(* the save, gui.deadline the time at which a join gives up, gui.msg the   *)
(* title of the message box shown last, gui.saveError whether the last     *)
(* call of save_server_config caught an exception (lines 61-62),           *)
(* gui.client_configs the keys of self.client_configs, gui.applied the     *)
(* keys that got their settings from "Apply to ALL", gui.listbox the       *)
(* device ids the client list shows.                                       *)
(***************************************************************************)
GuiIdle ==
    [pc |-> "idle", ops |-> 0, va |-> JNull, content |-> DefaultConfig,
     next |-> "idle", deadline |-> 0, msg |-> "none", saveError |-> FALSE,
     client_configs |-> {}, applied |-> {}, listbox |-> {}]

\* The texts of the two StringVars of the server settings form.
SettingsInputs ==
    {<<"periodic", "3">>, <<"daily", "17:00">>, <<"periodic", "0">>,
     <<"periodic", "-1">>, <<"periodic", "abc">>, <<"daily", "abc">>,
     <<"weekly", "3">>}

\* SettingsValid with the test of line 522 written as < 0.
SettingsValid_nonneg(ty, va) ==
    \/ ty = "daily" /\ StrptimeOK(va)
    \/ ty = "periodic" /\ va \in IntStrings /\ IntOfStr(va) >= 0

\* Lines 516-525 of _save_server_config: the input passes the validation.
SettingsValid(ty, va) ==
    \/ ty = "daily" /\ StrptimeOK(va)
    \/ ty = "periodic" /\ va \in IntStrings /\ IntOfStr(va) > 0

\* The value stored for a valid input (line 521 converts a periodic one).
SettingsValue(ty, va) ==
    IF ty = "periodic" THEN JInt(IntOfStr(va)) ELSE JStr(va)

\* stop_conversion_event.set() reaches every thread that polls the event.
Signalled == [l \in Loops |-> IF is_alive(l) THEN [thr[l] EXCEPT !.sig = TRUE]
                                             ELSE thr[l]]

\* Lines 512-527 of _save_server_config: the input is read and validated;
\* a rejected input only shows the error box (lines 533-535); an accepted
\* one is written to self.server_config, the type first (line 527).
GuiSaveSettings(ty, va) ==
    /\ gui.pc = "idle"
    /\ gui.ops < MaxGuiOps
    /\ SettingsValid(ty, va) => NextLoop <= MaxLoops
    /\ IF SettingsValid(ty, va)
       THEN /\ server_config' =
                   [server_config EXCEPT !.conversion_type = JStr(ty)]
            /\ gui' = [gui EXCEPT !.pc = "s528", !.ops = @ + 1,
                                  !.va = SettingsValue(ty, va),
                                  !.next = "restart"]
       ELSE /\ gui' = [gui EXCEPT !.ops = @ + 1, !.msg = "Validation Error"]
            /\ UNCHANGED server_config
    /\ UNCHANGED <<now, file, client_aliases, stop_conversion_event,
                   conversion_thread, last_daily_conversion_check,
                   last_periodic_conversion_time, thr, sw, fs, hist>>

\* Line 528.
GuiSetValue ==
    /\ gui.pc = "s528"
    /\ server_config' = [server_config EXCEPT !.conversion_value = gui.va]
    /\ gui' = [gui EXCEPT !.pc = "save"]
    /\ UNCHANGED <<now, file, client_aliases, stop_conversion_event,
                   conversion_thread, last_daily_conversion_check,
                   last_periodic_conversion_time, thr, sw, fs, hist>>

\* Lines 419-432 of _save_alias for the selected device d: the alias is
\* set, or removed when the device has one, in self.client_aliases, which
\* is then stored in self.server_config.
GuiSaveAlias(d) ==
    /\ gui.pc = "idle"
    /\ gui.ops < MaxGuiOps
    /\ client_aliases' = IF d \in client_aliases THEN client_aliases \ {d}
                                                 ELSE client_aliases \cup {d}
    /\ server_config' =
           [server_config EXCEPT !.client_aliases = client_aliases']
    /\ gui' = [gui EXCEPT !.pc = "save", !.ops = @ + 1, !.next = "idle"]
    /\ UNCHANGED <<now, file, stop_conversion_event, conversion_thread,
                   last_daily_conversion_check,
                   last_periodic_conversion_time, thr, sw, fs, hist>>

\* save_server_config(self.server_config), line 58: open(..., 'w')
\* truncates the file; the document to write is the one passed.  On a
\* write-protected file open raises: lines 61-62 print the error, the call
\* returns None as always, and the handler goes on to its "Success" box
\* (lines 431, 530).
GuiSaveOpen ==
    /\ gui.pc = "save"
    /\ IF file.locked
       THEN /\ file' = file
            /\ gui' = [gui EXCEPT !.pc = gui.next, !.content = server_config,
                                  !.msg = "Success", !.saveError = TRUE]
       ELSE /\ file' = FileEmpty
            /\ gui' = [gui EXCEPT !.pc = "write", !.content = server_config,
                                  !.saveError = FALSE]
    /\ UNCHANGED <<now, server_config, client_aliases, stop_conversion_event,
                   conversion_thread, last_daily_conversion_check,
                   last_periodic_conversion_time, thr, sw, fs, hist>>

\* save_server_config, lines 59-60: json.dump and the close of the file;
\* back in the handler the box "Success" is shown (lines 431, 530).
GuiSaveWrite ==
    /\ gui.pc = "write"
    /\ file' = FileDoc(gui.content)
    /\ gui' = [gui EXCEPT !.pc = gui.next, !.msg = "Success"]
    /\ hist' = [hist EXCEPT
                   !.stable = /\ @
                              /\ gui.content.conversion_type = hist.ty0
                              /\ gui.content.conversion_value = hist.va0,
                   !.daily = @ /\ gui.content.conversion_type = JStr("daily")]
    /\ UNCHANGED <<now, server_config, client_aliases, stop_conversion_event,
                   conversion_thread, last_daily_conversion_check,
                   last_periodic_conversion_time, thr, sw, fs>>

\* Lines 555-556 of _start_conversion_scheduler: a new thread is created
\* and started.
StartThread ==
    /\ thr' = [thr EXCEPT ![NextLoop] = Started(now)]
    /\ conversion_thread' = NextLoop
    /\ hist' = [hist EXCEPT !.started = 0]

\* _start_conversion_scheduler (called at line 532), lines 549-550: with
\* the current thread alive the stop event is set and the join begins;
\* without one the new thread is started at once.
GuiRestart ==
    /\ gui.pc = "restart"
    /\ IF is_alive(conversion_thread)
       THEN /\ stop_conversion_event' = TRUE
            /\ thr' = Signalled
            /\ gui' = [gui EXCEPT !.pc = "join",
                                  !.deadline = now + RESTART_JOIN_TIMEOUT]
            /\ UNCHANGED <<conversion_thread, hist>>
       ELSE /\ StartThread
            /\ gui' = [gui EXCEPT !.pc = "idle"]
            /\ UNCHANGED stop_conversion_event
    /\ UNCHANGED <<now, file, server_config, client_aliases,
                   last_daily_conversion_check,
                   last_periodic_conversion_time, sw, fs>>

\* Lines 551-556: join(timeout=2) returns, because the thread ended or
\* because the timeout passed; the event is cleared and the new thread is
\* started.
GuiJoinDone ==
    /\ gui.pc = "join"
    /\ ~is_alive(conversion_thread) \/ now >= gui.deadline
    /\ stop_conversion_event' = FALSE
    /\ StartThread
    /\ gui' = [gui EXCEPT !.pc = "idle"]
    /\ UNCHANGED <<now, file, server_config, client_aliases,
                   last_daily_conversion_check,
                   last_periodic_conversion_time, sw, fs>>

\* _on_closing, lines 725-729: the stop event is set and the thread, if
\* alive, is joined with a timeout of 5 s.
GuiClose ==
    /\ gui.pc = "idle"
    /\ gui.ops < MaxGuiOps
    /\ stop_conversion_event' = TRUE
    /\ thr' = Signalled
    /\ gui' = [gui EXCEPT !.pc = "cjoin", !.ops = @ + 1,
                          !.deadline = now + CLOSE_JOIN_TIMEOUT]
    /\ UNCHANGED <<now, file, server_config, client_aliases,
                   conversion_thread, last_daily_conversion_check,
                   last_periodic_conversion_time, sw, fs, hist>>

\* Lines 729-731: the join returned; master.destroy() ends the main loop
\* and, the threads being daemons, the process.
GuiCloseDone ==
    /\ gui.pc = "cjoin"
    /\ ~is_alive(conversion_thread) \/ now >= gui.deadline
    /\ gui' = [gui EXCEPT !.pc = "closed"]
    /\ UNCHANGED <<now, file, server_config, client_aliases,
                   stop_conversion_event, conversion_thread,
                   last_daily_conversion_check,
                   last_periodic_conversion_time, thr, sw, fs, hist>>

\* What takes time on the scale of the clock: time.sleep, a join, a sweep
\* (file and network I/O) and the user (between two button presses, and at
\* the message box of line 530).  Every other step is taken before the
\* clock moves on.
LoopBusy(l) ==
    \/ thr[l].pc \in {"check", "mark"}
    \/ thr[l].pc = "wait" /\ now >= thr[l].wakeAt
    \/ thr[l].pc = "sweep" /\ sw[l].pc = "done"

GuiBusy ==
    \/ gui.pc \in {"s528", "save", "write"}
    \/ gui.pc \in {"join", "cjoin"}
         /\ (~is_alive(conversion_thread) \/ now >= gui.deadline)

\* The wall clock advances by one second.
Advance ==
    /\ Running
    /\ now < MaxTime
    /\ ~GuiBusy
    /\ \A l \in Loops : ~LoopBusy(l)
    /\ now' = now + 1
    /\ UNCHANGED <<file, server_config, client_aliases,
                   stop_conversion_event, conversion_thread,
                   last_daily_conversion_check,
                   last_periodic_conversion_time, thr, gui, sw, fs, hist>>

(***************************************************************************)
(* The scheduler under the GUI, over a shared root without client          *)
(* directories.  Init is the state __init__ leaves (lines 62-78): the      *)
(* config loaded, both last-fired fields None, the first scheduler thread  *)
(* started.                                                                *)
(***************************************************************************)
InitFiles ==
    {FileDoc(Doc(JStr("periodic"), JInt(3), {})),
     FileDoc(Doc(JStr("daily"), JStr("17:00"), {})),
     FileDoc(Doc(JStr("daily"), JStr("17:01"), {})),
     FileDoc(Doc(JStr("periodic"), JStr("abc"), {})),
     FileDoc(Doc(JStr("periodic"), JNull, {}))}

AliasDevices == {"dev1"}

EmptyRoot ==
    [root |-> TRUE, dirs |-> <<>>,
     conv |-> [d \in Devs |-> "absent"],
     raw |-> [c \in Caps |-> NoRaw],
     meta |-> [c \in Caps |-> NoMeta],
     png |-> [c \in Caps |-> NoPng]]

InitFull(f, d, g) ==
    /\ now = 0
    /\ file = f
    /\ server_config = load_server_config(f)
    /\ client_aliases = load_server_config(f).client_aliases
    /\ stop_conversion_event = FALSE
    /\ conversion_thread = 1
    /\ last_daily_conversion_check = NoneStr
    /\ last_periodic_conversion_time = NoTime
    /\ thr = [l \in Loops |-> IF l = 1 THEN Started(0) ELSE Unborn]
    /\ gui = g
    /\ sw = [r \in Runners |-> SweepIdle]
    /\ fs = d
    /\ hist = [lastFire |-> NoTime, started |-> 0, stable |-> TRUE,
               daily |-> load_server_config(f).conversion_type = JStr("daily"),
               ty0 |-> load_server_config(f).conversion_type,
               va0 |-> load_server_config(f).conversion_value,
               fs0 |-> d]

InitWith(f, d) == InitFull(f, d, GuiIdle)

Init == \E f \in InitFiles : InitWith(f, EmptyRoot)

Next ==
    \/ \E l \in Loops : LoopTop(l)
    \/ \E l \in Loops : LoopCheck(l)
    \/ \E l \in Loops : LoopMark(l)
    \/ \E l \in Loops : LoopSweepDone(l)
    \/ \E r \in Runners : SweepStart(r)
    \/ \E r \in Runners : SweepEnd(r)
    \/ \E i \in SettingsInputs : GuiSaveSettings(i[1], i[2])
    \/ GuiSetValue
    \/ \E d \in AliasDevices : GuiSaveAlias(d)
    \/ GuiSaveOpen
    \/ GuiSaveWrite
    \/ GuiRestart
    \/ GuiJoinDone
    \/ GuiClose
    \/ GuiCloseDone
    \/ Advance

Spec == Init /\ [][Next]_vars

(***************************************************************************)
(* The conversions over a shared root with raw files: the first scheduler  *)
(* thread takes its first tick (the file holds daily 17:00 and the clock   *)
(* shows 17:00, so it sweeps) while the user runs manual conversions.      *)
(***************************************************************************)
\* ManualRun that also records the current minute as the one the daily
\* schedule last fired in.
ManualRun_marks ==
    /\ Running
    /\ sw[ManualThread].pc \in {"idle", "done"}
    /\ sw[ManualThread].runs < MaxManualRuns
    /\ sw' = [sw EXCEPT ![ManualThread] =
                [SweepIdle EXCEPT !.pc = "start", !.runs = sw[ManualThread].runs + 1]]
    /\ last_daily_conversion_check' = Strftime(now)
    /\ UNCHANGED <<now, file, server_config, client_aliases,
                   stop_conversion_event, conversion_thread,
                   last_periodic_conversion_time, thr, gui, hist, fs>>

\* Lines 619-633: the user confirms "Run Conversion Now" and a new thread
\* calls _run_conversions.
ManualRun ==
    /\ Running
    /\ sw[ManualThread].pc \in {"idle", "done"}
    /\ sw[ManualThread].runs < MaxManualRuns
    /\ sw' = [sw EXCEPT ![ManualThread] =
                [SweepIdle EXCEPT !.pc = "start", !.runs = sw[ManualThread].runs + 1]]
    /\ UNCHANGED <<SchedulerVars, fs>>

PerCap(a, b, c) ==
    [x \in Caps |-> IF x = <<"dev1", 1>> THEN a
                    ELSE IF x = <<"dev1", 2>> THEN b ELSE c]

Tree(cv, rw, mt) ==
    [root |-> TRUE, dirs |-> <<"dev1", "logs", "dev2">>, conv |-> cv,
     raw |-> rw, meta |-> mt, png |-> [c \in Caps |-> NoPng]]

Good == Raw(2 * 2 * BYTES_PER_PIXEL)
Short == Raw(5)
Full == Raw(FALLBACK_WIDTH * FALLBACK_HEIGHT * BYTES_PER_PIXEL)
GoodMeta == Meta("object", JInt(2), JInt(2))
NoConv == [d \in Devs |-> "absent"]

\* The shared roots the conversions are run over.
SweepRoots ==
    {Tree(NoConv, PerCap(Good, Good, Good),
          PerCap(GoodMeta, GoodMeta, GoodMeta)),
     Tree(NoConv, PerCap(Good, Good, Good),
          PerCap(Meta("nonobject", JNull, JNull), GoodMeta, GoodMeta)),
     Tree(NoConv, PerCap(Good, Good, Good),
          PerCap(GoodMeta, Meta("unreadable", JNull, JNull), GoodMeta)),
     Tree(NoConv, PerCap(Good, Short, Good),
          PerCap([GoodMeta EXCEPT !.pinned = TRUE], GoodMeta, GoodMeta)),
     Tree(NoConv, PerCap(Full, Good, NoRaw),
          PerCap(NoMeta, Meta("malformed", JNull, JNull), NoMeta)),
     Tree(NoConv, PerCap(Good, Good, Good),
          PerCap(Meta("object", JInt(0), JNull), GoodMeta, NoMeta)),
     Tree([d \in Devs |-> IF d = "dev1" THEN "blocked" ELSE "absent"],
          PerCap(Good, Good, Good), PerCap(GoodMeta, GoodMeta, GoodMeta)),
     Tree([d \in Devs |-> IF d = "dev2" THEN "blocked" ELSE "absent"],
          PerCap(Good, Good, Good), PerCap(GoodMeta, GoodMeta, GoodMeta)),
     Tree([d \in Devs |-> IF d = "dev1" THEN "readonly" ELSE "present"],
          PerCap(Good, Good, Good), PerCap(GoodMeta, GoodMeta, GoodMeta)),
     Tree(NoConv, PerCap([Good EXCEPT !.pinned = TRUE], Good, Good),
          PerCap(GoodMeta, GoodMeta, GoodMeta)),
     [EmptyRoot EXCEPT !.root = FALSE]}

SweepInit ==
    \E d \in SweepRoots :
        InitWith(FileDoc(Doc(JStr("daily"), JStr("17:00"), {})), d)

SweepNext ==
    \/ \E l \in Loops : LoopTop(l)
    \/ \E l \in Loops : LoopCheck(l)
    \/ \E l \in Loops : LoopMark(l)
    \/ \E l \in Loops : LoopSweepDone(l)
    \/ ManualRun
    \/ \E r \in Runners : SweepStart(r)
    \/ \E r \in Runners : SweepClient(r)
    \/ \E r \in Runners : SweepEnd(r)
    \/ \E r \in Runners : SweepMeta(r)
    \/ \E r \in Runners : SweepRead(r)
    \/ \E r \in Runners : SweepSave(r)
    \/ \E r \in Runners : SweepSaveDone(r)
    \/ \E r \in Runners : SweepRmRaw(r)
    \/ \E r \in Runners : SweepJsonExists(r)
    \/ \E r \in Runners : SweepRmJson(r)

SweepSpec == SweepInit /\ [][SweepNext]_vars

(***************************************************************************)
(* The loading of the configuration: the program starts on a file that     *)
(* lacks fields, or that cannot be read as a JSON object, and the first    *)
(* scheduler thread reloads it at every tick; nobody saves.                *)
(***************************************************************************)
Keys == {"conversion_type", "conversion_value", "client_aliases"}

\* The object o without the keys ks.
Without(o, ks) ==
    [conversion_type |-> IF "conversion_type" \in ks THEN TAbsent
                         ELSE o.conversion_type,
     conversion_value |-> IF "conversion_value" \in ks THEN TAbsent
                          ELSE o.conversion_value,
     client_aliases |-> IF "client_aliases" \in ks THEN TAbsent
                        ELSE o.client_aliases]

StoredObjects ==
    {json_dump(Doc(JStr("periodic"), JInt(3), {"dev1"})),
     json_dump(Doc(JStr("daily"), JStr("17:01"), {"dev2"})),
     json_dump(Doc(JStr("periodic"), JNull, {})),
     json_dump(Doc(JStr("daily"), JStr("17:1"), {}))}

PartialFiles ==
    {FileText("doc", Without(o, ks)) : o \in StoredObjects, ks \in SUBSET Keys}

BadFiles ==
    {FileMissing, FileEmpty}
    \cup {FileText(k, json_dump(Doc(JStr("periodic"), JInt(3), {"dev1"}))) :
             k \in {"malformed", "nonobject", "unreadable"}}

LoadInit == \E f \in PartialFiles \cup BadFiles : InitWith(f, EmptyRoot)

LoadNext ==
    \/ \E l \in Loops : LoopTop(l)
    \/ \E l \in Loops : LoopCheck(l)
    \/ \E l \in Loops : LoopMark(l)
    \/ \E l \in Loops : LoopSweepDone(l)
    \/ \E r \in Runners : SweepStart(r)
    \/ \E r \in Runners : SweepEnd(r)
    \/ Advance

LoadSpec == LoadInit /\ [][LoadNext]_vars

(***************************************************************************)
(* The client list.  The shared root holds directories of clients and      *)
(* reserved ones, client_configs.json holds settings under its keys;       *)
(* client machines create directories while the server runs.               *)
(***************************************************************************)
Range(q) == {q[i] : i \in 1..Len(q)}

\* _populate_client_list with line 304 showing the found directories only.
known_devices_found(f, keys) == Range(get_found_client_dirs(f))

\* Lines 285-304 of _populate_client_list: the directories of the shared
\* root that are not reserved (none when the root is missing or cannot be
\* listed), united with the keys of self.client_configs.
known_devices(f, keys) == Range(get_found_client_dirs(f)) \cup keys

\* A client machine, or somebody else, creates the directory d in the
\* shared root.
NewDirs == {"dev2", "converted"}

EnvMkdir(d) ==
    /\ Running
    /\ fs.root
    /\ d \notin Range(fs.dirs)
    /\ fs' = [fs EXCEPT !.dirs = Append(@, d)]
    /\ UNCHANGED <<SchedulerVars, sw>>

\* The drive of the shared root goes away: the root and all below it are
\* missing and os.makedirs cannot make it again.
EnvUnmount ==
    /\ Running
    /\ fs.root
    /\ \A r \in Runners : sw[r].pc \in {"idle", "done"}
    /\ fs' = [fs EXCEPT !.root = FALSE, !.dirs = <<>>]
    /\ UNCHANGED <<SchedulerVars, sw>>

\* _refresh_data (lines 540-545), run by the timer every 60 s:
\* _load_all_client_configs reloads the file, which holds the keys last
\* loaded or saved, or ends with no configs when the root cannot be made
\* (lines 247, 261-263); then the list is filled again.
GuiRefresh ==
    /\ gui.pc = "idle"
    /\ gui' = [gui EXCEPT
                 !.client_configs = IF fs.root THEN @ ELSE {},
                 !.listbox = known_devices(fs, IF fs.root
                                               THEN gui.client_configs
                                               ELSE {})]
    /\ UNCHANGED <<now, file, server_config, client_aliases,
                   stop_conversion_event, conversion_thread,
                   last_daily_conversion_check,
                   last_periodic_conversion_time, thr, sw, fs, hist>>

\* _apply_to_all_clients (lines 440-495) with a form that passes the
\* validation (ok) or not: every key of self.client_configs and every
\* found directory gets the settings of the form (lines 470-482), the file
\* is saved and the list filled again (lines 484-487).
GuiApplyToAll(ok) ==
    /\ gui.pc = "idle"
    /\ gui.ops < MaxGuiOps
    /\ LET all == gui.client_configs \cup Range(get_found_client_dirs(fs))
       IN  gui' = IF ~ok
                  THEN [gui EXCEPT !.ops = @ + 1, !.msg = "Validation Error"]
                  ELSE IF all = {}
                  THEN [gui EXCEPT !.ops = @ + 1, !.msg = "No Clients"]
                  ELSE [gui EXCEPT !.ops = @ + 1, !.msg = "Success",
                                   !.client_configs = all, !.applied = all,
                                   !.listbox = known_devices(fs, all)]
    /\ UNCHANGED <<now, file, server_config, client_aliases,
                   stop_conversion_event, conversion_thread,
                   last_daily_conversion_check,
                   last_periodic_conversion_time, thr, sw, fs, hist>>

ClientDirs ==
    {<<>>, <<"dev1", "logs">>, <<"converted", "dev1", "client_configs">>}

ClientKeys == SUBSET {"dev1", "dev3", "logs"}

\* The state __init__ leaves (lines 62-78): the configs loaded from
\* client_configs.json (none when the root is missing) and the list filled.
ClientInit ==
    \/ \E q \in ClientDirs, ks \in ClientKeys :
          InitFull(FileDoc(DefaultConfig), [EmptyRoot EXCEPT !.dirs = q],
                   [GuiIdle EXCEPT !.client_configs = ks,
                                   !.listbox = known_devices(
                                       [EmptyRoot EXCEPT !.dirs = q], ks)])
    \/ InitFull(FileDoc(DefaultConfig), [EmptyRoot EXCEPT !.root = FALSE],
                GuiIdle)

ClientNext ==
    \/ \E d \in NewDirs : EnvMkdir(d)
    \/ EnvUnmount
    \/ GuiRefresh
    \/ \E ok \in BOOLEAN : GuiApplyToAll(ok)
    \/ ManualRun
    \/ \E r \in Runners : SweepStart(r)
    \/ \E r \in Runners : SweepClient(r)
    \/ \E r \in Runners : SweepEnd(r)

ClientSpec == ClientInit /\ [][ClientNext]_vars

(***************************************************************************)
(* The saves on a configuration file that may be write-protected.          *)
(***************************************************************************)
FaultInit ==
    \E f \in {FileDoc(Doc(JStr("daily"), JStr("17:01"), {})),
               Locked(FileDoc(Doc(JStr("daily"), JStr("17:01"), {})))} :
        InitWith(f, EmptyRoot)

FaultSpec == FaultInit /\ [][Next]_vars

(***************************************************************************)
(* Claims about the scheduler, checked under Spec.                         *)
(***************************************************************************)
\* thr[l] describes the last tick thread l decided: its locals are those
\* of that tick until the next reload overwrites them.
TickDone(l) ==
    thr[l].ticks > 0 /\ thr[l].pc \in {"sweep", "wait", "crashed", "dead"}

\* Thread l takes the step that ends its due test.
MarkStep(l) == thr[l].pc = "mark" /\ thr'[l].pc # "mark"

\* The file has held the periodic schedule with one positive interval
\* since the start.
PeriodicThroughout ==
    /\ hist.stable
    /\ hist.ty0 = JStr("periodic")
    /\ PyInt(hist.va0).r = "ok"
    /\ PyInt(hist.va0).n > 0

\* The file has held the daily schedule with one HH:MM since the start.
DailyThroughout ==
    /\ hist.stable
    /\ hist.ty0 = JStr("daily")
    /\ hist.va0.t = "str"
    /\ StrptimeOK(hist.va0.s)

\* C1 (stated as claimed): under the periodic schedule with interval N,
\* whatever ticks, reloads, settings saves and restarts happen, a scheduled
\* sweep that is not the first one after a scheduler start is triggered
\* only when at least N seconds have passed since the previous scheduled
\* sweep was triggered.
C1_PeriodicNeverEarly ==
    \A l \in Loops :
        ( /\ PeriodicThroughout
          /\ TickDone(l)
          /\ thr[l].branch \in FireBranches
          /\ ~thr[l].first
          /\ thr[l].prev # NoTime )
        => thr[l].tnow - thr[l].prev >= PyInt(hist.va0).n

\* C2 (stated as claimed): under the periodic schedule the first tick a
\* scheduler thread executes after its start triggers a sweep, also when
\* the start is a restart.
C2_FirstTickFires ==
    \A l \in Loops :
        ( /\ TickDone(l)
          /\ thr[l].ticks = 1
          /\ thr[l].ctype = JStr("periodic")
          /\ PyInt(thr[l].cvalue).r = "ok" )
        => thr[l].branch \in FireBranches

\* C3 (stated as claimed): under the daily schedule no two scheduled
\* sweeps are triggered within the same calendar minute.
C3_DailyOncePerMinute ==
    \A l \in Loops :
        ( /\ hist.daily
          /\ TickDone(l)
          /\ thr[l].branch = "d_fire"
          /\ thr[l].prev # NoTime )
        => MinuteOf(thr[l].prev) # MinuteOf(thr[l].tnow)

\* C4 (stated as claimed): with the daily configuration HH:MM unchanged, a
\* tick in a minute other than HH:MM leaves the last-fired minute cleared,
\* and on every later day a tick in the minute HH:MM leaves exactly one
\* scheduled sweep triggered in that minute.
C4_DailyClearedAndOncePerDay ==
    [][ \A l \in Loops :
          (DailyThroughout /\ MarkStep(l)) =>
             IF Strftime(thr[l].tnow) # hist.va0.s
             THEN last_daily_conversion_check' = NoneStr
             ELSE DayOf(thr[l].tnow) >= 1 =>
                    /\ hist'.lastFire # NoTime
                    /\ MinuteOf(hist'.lastFire) = MinuteOf(thr[l].tnow)
                    /\ thr'[l].pc = "sweep" =>
                          \/ hist.lastFire = NoTime
                          \/ MinuteOf(hist.lastFire) # MinuteOf(thr[l].tnow)
      ]_vars

\* C5 (stated as claimed): after any sequence of starts and restarts at
\* most one scheduler thread is alive.
C5_AtMostOneLoop == Cardinality(AliveLoops) <= 1

\* C6 (stated as claimed): a scheduler thread leaves its loop only when
\* the stop event is set: no config content and no exception ends it.
C6_LoopExitsOnlyOnStop == \A l \in Loops : thr[l].pc # "crashed"

\* conversion_value is malformed for the schedule type: not an HH:MM
\* string for daily, not convertible to an integer for periodic.
Malformed(ty, va) ==
    \/ ty = JStr("daily") /\ ~(va.t = "str" /\ StrptimeOK(va.s))
    \/ ty = JStr("periodic") /\ PyInt(va).r # "ok"

\* C7 (stated as claimed): a tick that finds conversion_value malformed
\* for the active type triggers no sweep, leaves both last-fired fields as
\* they were, and the thread goes on to its next tick.
C7_MalformedValueSkipsTick ==
    [][ \A l \in Loops :
          ( /\ thr[l].pc \in {"check", "mark"}
            /\ thr'[l].pc # thr[l].pc
            /\ Malformed(thr[l].ctype, thr[l].cvalue) )
          => /\ thr'[l].pc \in {"mark", "wait"}
             /\ last_daily_conversion_check' = last_daily_conversion_check
             /\ last_periodic_conversion_time' = last_periodic_conversion_time
      ]_vars

\* C8 (stated as claimed): once the stop event has been set for a running
\* scheduler thread, the thread observes it at its next loop test and
\* exits, starting no further sweep.
C8_SignalledLoopExits ==
    [][ \A l \in Loops :
          (thr[l].sig /\ thr[l].pc = "wait" /\ thr'[l].pc # "wait")
          => thr'[l].pc = "dead"
      ]_vars

(***************************************************************************)
(* Claims about the conversions, checked under SweepSpec.                  *)
(***************************************************************************)
\* C9 (stated as claimed): a single bad file never aborts a sweep: when a
\* call of _run_conversions has returned, every raw file that was pending
\* when it started has been attempted by it, unless the file is no longer
\* there (another sweep converted it).
C9_BadFileNeverAbortsSweep ==
    \A r \in Runners :
        sw[r].pc = "done" =>
            \A c \in sw[r].pending :
                c \in sw[r].tried \/ ~fs.raw[c].there

\* C10 (stated as claimed): when a call of _run_conversions has returned,
\* every file it recorded as a per-file failure still has its raw file
\* and, if it had one when the call started, its sidecar in place, and was
\* not counted by the call as converted; a file that another sweep has
\* worked on as well is left out.
C10_FailedFileLeftInPlace ==
    \A r \in Runners :
        sw[r].pc = "done" =>
            \A c \in sw[r].failed :
                \/ \E q \in Runners \ {r} : c \in sw[q].tried
                \/ /\ fs.raw[c].there
                   /\ c \in sw[r].had => fs.meta[c].kind # "absent"
                   /\ c \notin sw[r].counted

\* No call of _run_conversions is under way.
Quiet == \A r \in Runners : sw[r].pc \in {"idle", "done"}

\* C11 (stated as claimed): at the end of a sweep pass, with no other pass
\* under way, every raw capture that was pending for the pass is either
\* untouched (raw file and, if it had one, sidecar present, no PNG) or
\* fully converted (raw file and sidecar absent, PNG present).
C11_NoMixedState ==
    \A r \in Runners :
        (sw[r].pc = "done" /\ Quiet) =>
            \A c \in sw[r].pending :
                \/ /\ fs.raw[c].there
                   /\ ~fs.png[c].there
                   /\ c \in sw[r].had => fs.meta[c].kind # "absent"
                \/ /\ ~fs.raw[c].there
                   /\ fs.meta[c].kind = "absent"
                   /\ fs.png[c].there

\* The raw files deleted since the start.
Removed == {c \in Caps : hist.fs0.raw[c].there /\ ~fs.raw[c].there}

\* No sidecar makes line 680 raise past the handler of line 688.
NoAbortingSidecar ==
    \A c \in Caps : ResolveDims(hist.fs0.meta[c]).r = "ok"

\* No file system call on any file of the shared tree raises.
NoIOFaults ==
    /\ \A d \in Devs : hist.fs0.conv[d] \in {"absent", "present"}
    /\ \A c \in Caps : ~hist.fs0.raw[c].pinned /\ ~hist.fs0.meta[c].pinned

\* C12 (stated as claimed, over a tree on which no file system call
\* fails and every sidecar can be resolved): when the scheduled sweep of the first scheduler thread and a
\* manual sweep have both run and both have returned, every raw file that
\* was deleted has been converted once (its PNG written once), is counted
\* as a success by exactly one of the two sweeps, and the two success
\* counters sum to the number of raw files deleted.
C12_ConsumedExactlyOnce ==
    ( /\ NoIOFaults
      /\ NoAbortingSidecar
      /\ thr[1].fired
      /\ sw[1].pc \in {"idle", "done"}
      /\ sw[ManualThread].pc = "done"
      /\ sw[ManualThread].runs = 1 )
    => /\ \A c \in Removed :
              /\ (c \in sw[1].counted) # (c \in sw[ManualThread].counted)
              /\ fs.png[c].writes = 1
       /\ sw[1].total + sw[ManualThread].total = Cardinality(Removed)

\* Capture c started with a sidecar carrying positive integers width and
\* height and a raw buffer of exactly width * height * 3 bytes.
ExactCapture(c) ==
    /\ hist.fs0.meta[c].kind = "object"
    /\ IsPosInt(hist.fs0.meta[c].w)
    /\ IsPosInt(hist.fs0.meta[c].h)
    /\ hist.fs0.raw[c].there
    /\ hist.fs0.raw[c].len =
           hist.fs0.meta[c].w.n * hist.fs0.meta[c].h.n * BYTES_PER_PIXEL

\* No file system call on the files of capture c raises: its converted
\* directory can be made and written to, its raw file and sidecar can be
\* deleted.
NoIOFault(c) ==
    /\ hist.fs0.conv[c[1]] \in {"absent", "present"}
    /\ ~hist.fs0.raw[c].pinned
    /\ ~hist.fs0.meta[c].pinned

\* Capture c is converted: its PNG has the size of the sidecar and its raw
\* file is deleted.
Converted(c) ==
    /\ fs.png[c].there
    /\ fs.png[c].w = hist.fs0.meta[c].w.n
    /\ fs.png[c].h = hist.fs0.meta[c].h.n
    /\ ~fs.raw[c].there

\* C13: a call of _run_conversions that has gone through the loop body for
\* a raw file with a valid sidecar (width w, height h) and a buffer of
\* exactly w*h*3 bytes, with no file system call on its files raising, has
\* written the PNG with the size w x h, deleted the raw file and the
\* sidecar and counted the file once; the one exception is a file that a
\* concurrent sweep converted first, which the call logs as failed.
C13_ValidFileConverted ==
    \A r \in Runners :
        /\ sw[r].total = Cardinality(sw[r].counted)
        /\ \A c \in sw[r].counted \cup sw[r].failed :
              (ExactCapture(c) /\ NoIOFault(c)) =>
                 /\ Converted(c)
                 /\ c \in sw[r].counted => fs.meta[c].kind = "absent"

\* A sweep has converted and counted a valid capture.
C13_Witness ==
    \E r \in Runners : \E c \in sw[r].counted :
        ExactCapture(c) /\ NoIOFault(c) /\ Converted(c)

\* os.makedirs fails for the converted directory of device d.
Blocked(d) == hist.fs0.conv[d] = "blocked"

\* C14: in a sweep over clients of which some have a converted directory
\* that cannot be made, no file of such a client is changed, and when the
\* call has returned every pending raw file of every other client has been
\* attempted (or was taken by another sweep), provided no sidecar aborts
\* the sweep.
C14_OnlyBlockedClientSkipped ==
    (\E d \in Devs : Blocked(d)) =>
        /\ \A c \in Caps :
              Blocked(c[1]) => /\ fs.raw[c] = hist.fs0.raw[c]
                               /\ fs.meta[c] = hist.fs0.meta[c]
                               /\ fs.png[c] = hist.fs0.png[c]
        /\ \A r \in Runners :
              (sw[r].pc = "done" /\ NoAbortingSidecar) =>
                  /\ ~sw[r].aborted
                  /\ \A c \in Caps :
                        (hist.fs0.raw[c].there /\ ~Blocked(c[1])) =>
                            c \in sw[r].tried \/ ~fs.raw[c].there

\* A sweep has returned that passed over a client with raw files and
\* converted a file of another client.
C14_Witness ==
    \E r \in Runners : \E k \in Caps : \E c \in sw[r].counted :
        /\ sw[r].pc = "done"
        /\ Blocked(k[1]) /\ fs.raw[k].there
        /\ ~Blocked(c[1])


\* C15: while the shared root does not exist, no call of _run_conversions
\* gets past the check of its first lines: it converts nothing, attempts
\* nothing, leaves the shared tree as it was, and once it has returned it
\* does not start again unless the user asks for another manual run.
C15_MissingRootZeroProgress ==
    [][~fs.root =>
         /\ fs' = hist.fs0
         /\ \A r \in Runners :
               /\ sw'[r].pc \in {"idle", "start", "done"}
               /\ sw'[r].total = 0
               /\ sw'[r].tried = {}
               /\ (sw[r].pc = "done" /\ sw'[r].pc = "start") =>
                     /\ r = ManualThread
                     /\ sw'[r].runs = sw[r].runs + 1]_vars

C15_Witness ==
    /\ ~fs.root
    /\ sw[1].pc = "done"
    /\ sw[ManualThread].pc = "done"


C24_NoCaptureLost ==
    \A c \in Caps :
       hist.fs0.raw[c].there =>
          \/ fs.raw[c].there
          \/ fs.png[c].there /\ ~fs.png[c].partial

\* C28 (stated as claimed): when a sweep has looked at the sidecar of a
\* file (absent, malformed, not an object, or an object), it goes on to
\* read the raw file, with the size of the sidecar if that is an object
\* with two positive integers and with 1920 x 1080 in every other case.
C28_DimensionResolution ==
    [][\A r \in Runners :
          (/\ sw[r].pc = "meta"
           /\ sw'[r] # sw[r]
           /\ fs.meta[CurCap(sw[r])].kind
                 \in {"absent", "malformed", "nonobject", "object"}) =>
             LET m == fs.meta[CurCap(sw[r])]
                 valid == m.kind = "object" /\ IsPosInt(m.w) /\ IsPosInt(m.h)
             IN  /\ sw'[r].pc = "read"
                 /\ sw'[r].w = IF valid THEN m.w.n ELSE 1920
                 /\ sw'[r].h = IF valid THEN m.h.n ELSE 1080]_vars

(***************************************************************************)
(* Claims on the settings form, checked under Spec.                        *)
(***************************************************************************)
\* The inputs the form has to reject: a daily value that is no HH:MM time,
\* a periodic value that is no integer or not positive, an unknown type.
MustReject(ty, va) ==
    \/ ty = "daily" /\ ~StrptimeOK(va)
    \/ ty = "periodic" /\ (va \notin IntStrings \/ IntOfStr(va) <= 0)
    \/ ty \notin {"daily", "periodic"}

\* C16: a run of _save_server_config on an input that has to be rejected
\* shows the validation error and returns; it leaves the file, the
\* in-memory configuration, the aliases, the stop event, the scheduler
\* threads and both last-fired fields as they were.
C16_RejectedSaveChangesNothing ==
    [][\A i \in SettingsInputs :
          (MustReject(i[1], i[2]) /\ GuiSaveSettings(i[1], i[2])) =>
             /\ gui'.msg = "Validation Error"
             /\ gui'.pc = "idle"
             /\ UNCHANGED <<file, server_config, client_aliases,
                            stop_conversion_event, conversion_thread, thr,
                            last_daily_conversion_check,
                            last_periodic_conversion_time>>]_vars

C16_Witness ==
    /\ gui.msg = "Validation Error"
    /\ gui.pc = "idle"
    /\ is_alive(conversion_thread)
    /\ thr[conversion_thread].ticks > 0


(***************************************************************************)
(* Claims on the configuration store.                                      *)
(***************************************************************************)
\* Thread l has reloaded the configuration and holds it in its locals.
Reloaded(l) == thr[l].pc \in {"check", "mark"} \/ TickDone(l)

\* The field key of the file, read as JSON, or the documented default
\* when the object has no such field.
Expected(key) ==
    IF file.doc[key].tk = "absent"
    THEN (CASE key = "conversion_type" -> JStr("daily")
            [] key = "conversion_value" -> JStr("17:00")
            [] OTHER -> JNull)
    ELSE json_loads(file.doc[key])

ExpectedAliases ==
    IF file.doc.client_aliases.tk = "absent" THEN {}
    ELSE file.doc.client_aliases.keys

\* C18 (under LoadSpec): with a file that parses to an object, the loaded
\* configuration (at start and after every reload of a scheduler thread)
\* holds all three fields, each the value the file has for it or, when the
\* object lacks the field, its default daily, 17:00, no aliases.
C18_MissingFieldsGetDefaults ==
    file.kind = "doc" =>
       /\ DOMAIN server_config = Keys
       /\ server_config.conversion_type = Expected("conversion_type")
       /\ server_config.conversion_value = Expected("conversion_value")
       /\ server_config.client_aliases = ExpectedAliases
       /\ client_aliases = ExpectedAliases
       /\ \A l \in Loops : Reloaded(l) =>
             /\ thr[l].ctype = Expected("conversion_type")
             /\ thr[l].cvalue = Expected("conversion_value")

C18_Witness ==
    /\ file.kind = "doc"
    /\ file.doc.conversion_type = TString("periodic")
    /\ file.doc.conversion_value = TAbsent
    /\ file.doc.client_aliases = TAbsent
    /\ Reloaded(1)
    /\ thr[1].ctype = JStr("periodic")
    /\ thr[1].cvalue = JStr("17:00")
    /\ server_config.client_aliases = {}

\* C19 (under LoadSpec): with no file, a file that cannot be opened, text
\* that is no JSON or JSON that is no object, every load gives the default
\* document daily, 17:00, no aliases, whatever the file holds, and no
\* scheduler thread ends on an exception.
C19_LoadNeverFails ==
    file.kind # "doc" =>
       /\ server_config = Doc(JStr("daily"), JStr("17:00"), {})
       /\ client_aliases = {}
       /\ \A l \in Loops :
             /\ thr[l].pc # "crashed"
             /\ Reloaded(l) => /\ thr[l].ctype = JStr("daily")
                               /\ thr[l].cvalue = JStr("17:00")

C19_Witness ==
    /\ file.kind = "nonobject"
    /\ file.doc.conversion_type = TString("periodic")
    /\ thr[1].fired
    /\ thr[1].ctype = JStr("daily")


\* C20 (under Spec): once save_server_config has written the document it
\* was called with, and until the next save opens the file,
\* load_server_config gives that document back field for field: the same
\* type, the same value (an integer as an integer, a string as a string,
\* None as None) and the same aliases.
C20_SaveLoadRoundTrip ==
    (gui.msg = "Success" /\ ~gui.saveError /\ gui.pc # "write") =>
       /\ load_server_config(file).conversion_type = gui.content.conversion_type
       /\ load_server_config(file).conversion_value = gui.content.conversion_value
       /\ load_server_config(file).client_aliases = gui.content.client_aliases
       /\ DOMAIN load_server_config(file) = DOMAIN gui.content

C20_Witness ==
    /\ gui.msg = "Success"
    /\ gui.pc = "idle"
    /\ gui.content.conversion_type = JStr("periodic")
    /\ gui.content.conversion_value = JInt(3)
    /\ file.doc.conversion_value = TNumber("3")
    /\ load_server_config(file) = gui.content


\* C21 (stated as claimed, under FaultSpec): a save whose write failed is
\* not reported as a success, neither by the settings form nor by the
\* alias form.
C21_FailedSaveNotReportedSuccess ==
    ~(gui.saveError /\ gui.msg = "Success")


(***************************************************************************)
(* Claims on the client list, checked under ClientSpec.                    *)
(***************************************************************************)
\* C22 (stated as claimed): no reserved name is among the known devices
\* the list shows, none has settings written by "Apply to ALL", and no
\* call of _run_conversions has a reserved directory among the client
\* directories it goes through.
C22_ReservedNeverDevice ==
    \A n \in RESERVED :
       /\ n \notin gui.listbox
       /\ n \notin gui.applied
       /\ \A r \in Runners : n \notin Range(sw[r].clients) /\ sw[r].dev # n

\* C23: whenever the client list is filled with a new content, it holds
\* exactly the directories of the shared root that are not reserved and
\* the keys of the client configs; with the root missing it holds the
\* keys only and no error box of the listing is shown.
C23_KnownDevicesAreUnion ==
    [][gui'.listbox # gui.listbox =>
          /\ gui'.listbox =
               (IF fs'.root THEN Range(fs'.dirs) \ RESERVED ELSE {})
               \cup gui'.client_configs
          /\ ~fs'.root => /\ gui'.listbox = gui'.client_configs
                          /\ gui'.msg # "Permission Error"]_vars

C23_Witness ==
    /\ "dev2" \in gui.listbox
    /\ "dev2" \notin gui.client_configs
    /\ "dev3" \in gui.listbox
    /\ "dev3" \notin Range(fs.dirs)
    /\ "converted" \in Range(fs.dirs)
    /\ "converted" \notin gui.listbox


(***************************************************************************)
(* Further claims about the scheduler, checked under Spec.                 *)
(***************************************************************************)
\* C25 (stated as claimed): a time is written to
\* last_periodic_conversion_time only by a thread whose sweep of the tick
\* has returned.
C25_PeriodicMarkedAfterSweep ==
    [][(/\ last_periodic_conversion_time' # last_periodic_conversion_time
        /\ last_periodic_conversion_time' # NoTime)
       => \E l \in Loops : /\ thr[l].pc = "sweep"
                           /\ sw[l].pc = "done"
                           /\ thr'[l].pc # "sweep"]_vars


\* The settings handler, respectively the alias handler, has shown its
\* "Success" box and no save has begun since.
SettingsSaved ==
    /\ gui.msg = "Success"
    /\ gui.next = "restart"
    /\ gui.pc \in {"restart", "join", "idle"}

AliasSaved ==
    /\ gui.msg = "Success"
    /\ gui.next = "idle"
    /\ gui.pc = "idle"

\* C26 (stated as claimed): after a settings save has reported success the
\* file holds the validated pair, the type the form had (periodic for an
\* integer value, daily for a time) and the validated value; after an
\* alias save has reported success the file holds the alias map of the
\* GUI.
C26_NoLostUpdate ==
    /\ SettingsSaved =>
          /\ file.kind = "doc"
          /\ load_server_config(file).conversion_value = gui.va
          /\ load_server_config(file).conversion_type =
                IF gui.va.t = "int" THEN JStr("periodic") ELSE JStr("daily")
    /\ AliasSaved =>
          /\ file.kind = "doc"
          /\ load_server_config(file).client_aliases = client_aliases


\* C27 (stated as claimed): while the file has held one periodic schedule
\* since the start, a tick that did not get that schedule from its load
\* (it read the file while a save had emptied it) leaves
\* last_periodic_conversion_time as it was and triggers a sweep only if
\* the periodic schedule is due at that tick.
C27_FailedLoadKeepsSchedule ==
    [][\A l \in Loops :
          (PeriodicThroughout /\ MarkStep(l) /\ thr[l].ctype # hist.ty0) =>
             /\ UNCHANGED last_periodic_conversion_time
             /\ thr'[l].pc = "sweep" =>
                   DueBranch(hist.ty0, hist.va0, thr[l].tnow,
                             last_daily_conversion_check,
                             last_periodic_conversion_time) \in FireBranches]_vars


\* C29 (stated as claimed): when a thread ends the evaluation of a tick
\* whose type was daily, last_periodic_conversion_time is unset, and when
\* it ends the evaluation of a tick whose type was periodic,
\* last_daily_conversion_check is unset.
C29_OpposingMemoryCleared ==
    [][\A l \in Loops :
          (/\ thr[l].pc \in {"check", "mark"}
           /\ thr'[l].pc \in {"wait", "sweep", "crashed"}) =>
             /\ thr[l].ctype = JStr("daily") =>
                   last_periodic_conversion_time' = NoTime
             /\ thr[l].ctype = JStr("periodic") =>
                   last_daily_conversion_check' = NoneStr]_vars


\* C30 (stated as claimed): when a thread evaluates a tick under type
\* daily with a value the settings form accepts, and the clock it read
\* stands in the minute that value denotes, the tick fires, unless that
\* minute has fired already.
C30_AcceptedDailyFires ==
    [][\A l \in Loops :
          (/\ thr[l].pc = "check"
           /\ thr'[l].pc # "check"
           /\ thr[l].ctype = JStr("daily")
           /\ thr[l].cvalue.t = "str"
           /\ SettingsValid("daily", thr[l].cvalue.s)
           /\ Strftime(thr[l].tnow) = Strptime(thr[l].cvalue.s)
           /\ last_daily_conversion_check # Strftime(thr[l].tnow)) =>
             thr'[l].branch = "d_fire"]_vars


\* C31 (stated as claimed): a PNG that a sweep has written is not written
\* again, by a later sweep, by the retry of a file whose earlier attempt
\* failed, or by a sweep running at the same time: no PNG path is opened
\* for writing more than once.
C31_PngNeverOverwritten ==
    \A c \in Caps : fs.png[c].writes <= 1

=============================================================================
